---------------------------- MODULE Spec2Model ----------------------------
(***************************************************************************)
(* Model of scripts/mmseqs_pipeline.py: taxonomy annotation of a3m files   *)
(* (read_a3m, read_m8, update_a3m), partitioning into pairable and         *)
(* non-pairable subsets (process_one_file), the chain registry built by    *)
(* the main loop, and the fold-input assembler (write_to_af3_template).    *)
(*                                                                         *)
(* A Python string is a sequence of tokens.  A token is one character      *)
(* (">", "_", "/", "|", "-", ".", tab, newline, a residue letter) or an    *)
(* atom standing for a run of characters that the code never looks inside  *)
(* ("UniRef100", "cb", "query", "9606", "101", a directory name).  No      *)
(* token of the alphabet occurs inside another one, so startswith, split   *)
(* and replace on tokens agree with the character-level operations.        *)
(***************************************************************************)
EXTENDS Naturals, Sequences, FiniteSets, TLC

\* Bounds of the model.
MaxFiles == 2     \* alignment files the search leaves in the output directory
MaxHits == 3      \* hit records of one run, summed over its alignment files
MaxChains == 2    \* entries of the fold-input document

NL == "\n"
TAB == "\t"
GT == ">"
Whitespace == {" ", TAB, NL}

---------------------------------------------------------------------------
\* Python string primitives on token sequences.

\* str.startswith
StartsWith(s, p) == Len(s) >= Len(p) /\ SubSeq(s, 1, Len(p)) = p

\* `x in s` for a one-character x
Contains(s, x) == \E p \in 1..Len(s) : s[p] = x

\* "".join(parts); also what consecutive f.write(line) calls leave in a file
RECURSIVE Join(_)
Join(parts) == IF parts = <<>> THEN <<>> ELSE Head(parts) \o Join(Tail(parts))

\* str.split(sep) for a one-character sep: always at least one field
RECURSIVE Split(_, _)
Split(s, sep) ==
    IF ~Contains(s, sep) THEN <<s>>
    ELSE LET p == CHOOSE q \in 1..Len(s) :
                     s[q] = sep /\ \A r \in 1..(q - 1) : s[r] # sep
         IN <<SubSeq(s, 1, p - 1)>> \o Split(SubSeq(s, p + 1, Len(s)), sep)

\* str.replace(old, new): every non-overlapping occurrence, left to right,
\* for a non-empty old
RECURSIVE Replace(_, _, _)
Replace(s, old, new) ==
    IF Len(old) = 0 \/ Len(s) < Len(old) THEN s
    ELSE IF StartsWith(s, old)
         THEN new \o Replace(SubSeq(s, Len(old) + 1, Len(s)), old, new)
         ELSE <<Head(s)>> \o Replace(Tail(s), old, new)

\* str.strip()
RECURSIVE LStrip(_)
LStrip(s) == IF s # <<>> /\ Head(s) \in Whitespace THEN LStrip(Tail(s)) ELSE s
RECURSIVE RStrip(_)
RStrip(s) ==
    IF s # <<>> /\ s[Len(s)] \in Whitespace
    THEN RStrip(SubSeq(s, 1, Len(s) - 1)) ELSE s
Strip(s) == RStrip(LStrip(s))

\* f.readlines() / iterating a file: lines keep their newline
RECURSIVE ReadLines(_)
ReadLines(text) ==
    IF text = <<>> THEN <<>>
    ELSE IF ~Contains(text, NL) THEN <<text>>
    ELSE LET p == CHOOSE q \in 1..Len(text) :
                     text[q] = NL /\ \A r \in 1..(q - 1) : text[r] # NL
         IN <<SubSeq(text, 1, p)>> \o ReadLines(SubSeq(text, p + 1, Len(text)))

\* Python's None and a str value, kept apart
None == [tag |-> "None", val |-> <<>>]
Str(s) == [tag |-> "str", val |-> s]

---------------------------------------------------------------------------
\* read_a3m: heads, seqs and the boundary line index of one alignment file.

IsHeader(line) == StartsWith(line, <<GT>>)

\* The loop of read_a3m over the line indices idx (0-based), carrying
\* uniref_index.  query_name is line 0, which is a header in every file of
\* the model.
RECURSIVE ScanBoundary(_, _, _)
ScanBoundary(lines, idx, uniref_index) ==
    IF idx >= Len(lines) THEN uniref_index
    ELSE LET line == lines[idx + 1]
         IN ScanBoundary(lines, idx + 1,
                IF IsHeader(line) /\ idx > 0 /\ line = lines[1]
                THEN idx ELSE uniref_index)

read_a3m(lines) ==
    [heads |-> SelectSeq(lines, IsHeader),
     seqs |-> SelectSeq(lines, LAMBDA l : ~IsHeader(l)),
     uniref_index |-> ScanBoundary(lines, 0, 0)]

\* read_m8: rows of the hit table, last row of a hit name wins.
RECURSIVE read_m8(_)
read_m8(rows) ==
    IF rows = <<>> THEN <<>>
    ELSE LET line_list == Split(Replace(rows[Len(rows)], <<NL>>, <<>>), TAB)
             rest == read_m8(SubSeq(rows, 1, Len(rows) - 1))
         IN (line_list[2] :> line_list[3]) @@ rest

\* uniref_to_ncbi_taxid.get(uniref_id, None)
TaxidOf(uniref_to_ncbi_taxid, uniref_id) ==
    IF uniref_id \in DOMAIN uniref_to_ncbi_taxid
    THEN Str(uniref_to_ncbi_taxid[uniref_id]) ELSE None

\* The header update_a3m writes for record idx (0-based).
UpdatedHead(head, idx, uniref_index, uniref_to_ncbi_taxid) ==
    LET uniref_id == Tail(Split(head, TAB)[1])
        ncbi_taxid == TaxidOf(uniref_to_ncbi_taxid, uniref_id)
    IN IF ncbi_taxid # None /\ idx < (uniref_index \div 2)
       THEN IF ~StartsWith(uniref_id, <<"UniRef100", "_">>)
            THEN Replace(head, uniref_id,
                     <<"UniRef100", "_">> \o uniref_id \o <<"_">>
                         \o ncbi_taxid.val \o <<"/">>)
            ELSE Replace(head, uniref_id,
                     uniref_id \o <<"_">> \o ncbi_taxid.val \o <<"/">>)
       ELSE head

Min(a, b) == IF a <= b THEN a ELSE b

\* update_a3m: the text of the file written under save_root, and the
\* boundary it used.
update_a3m(lines, uniref_to_ncbi_taxid) ==
    LET r == read_a3m(lines)
        n == Min(Len(r.heads), Len(r.seqs))
        out == [k \in 1..n |->
                   UpdatedHead(r.heads[k], k - 1, r.uniref_index,
                               uniref_to_ncbi_taxid) \o r.seqs[k]]
    IN [text |-> Join(out), uniref_index |-> r.uniref_index]

---------------------------------------------------------------------------
\* process_one_file

\* The header written for a hit of the pairable family (lines 192-196);
\* IndexError when the identifier has no "_".
PairableHeader(line) ==
    LET uniref_id == Split(Split(line, TAB)[1], "_")
    IN IF Len(uniref_id) = 3
       THEN [ok |-> TRUE,
             header |-> <<GT, "cb", "|">> \o uniref_id[2] \o <<"|">>
                            \o uniref_id[2] \o <<"_">> \o uniref_id[3] \o <<NL>>]
       ELSE IF Len(uniref_id) >= 2
       THEN [ok |-> TRUE,
             header |-> <<GT, "cb", "|">> \o uniref_id[2] \o <<"|">>
                            \o uniref_id[2] \o <<"/", NL>>]
       ELSE [ok |-> FALSE, header |-> <<>>]

\* seq = lines[i + 1] of line 189, for the 0-based index i into lines[2:]
SeqOfHit(lines, i) == lines[(i + 1) + 1]

\* The loop of lines 183-199 from index i (0-based, into lines[2:]).
RECURSIVE Classify(_, _, _, _)
Classify(lines, i, uniref100_lines, other_lines) ==
    IF i >= Len(lines) - 2
    THEN [status |-> "ok", at |-> 0,
          uniref100_lines |-> uniref100_lines, other_lines |-> other_lines]
    ELSE IF i % 2 # 0
    THEN Classify(lines, i + 1, uniref100_lines, other_lines)
    ELSE LET line == lines[(2 + i) + 1]
             seq == SeqOfHit(lines, i)
         IN IF ~IsHeader(line)
            THEN [status |-> "bad_header", at |-> i,
                  uniref100_lines |-> uniref100_lines,
                  other_lines |-> other_lines]
            ELSE IF StartsWith(line, <<GT, "UniRef100">>)
            THEN LET h == PairableHeader(line)
                 IN IF ~h.ok
                    THEN [status |-> "IndexError", at |-> i,
                          uniref100_lines |-> uniref100_lines,
                          other_lines |-> other_lines]
                    ELSE Classify(lines, i + 1,
                             uniref100_lines \o <<h.header, seq>>, other_lines)
            ELSE Classify(lines, i + 1, uniref100_lines,
                          other_lines \o <<line, seq>>)

\* Faulty variant of line 203: nothing is removed.
KeepAllOther(other_lines) == other_lines

\* other_lines = other_lines[0:2] + other_lines[4:]  (line 203)
DropDuplicateQuery(other_lines) ==
    SubSeq(other_lines, 1, 2) \o SubSeq(other_lines, 5, Len(other_lines))

\* The assertion loop of lines 204-206.
TabAssertion(other_lines) ==
    \A p \in 1..Len(other_lines) :
        ((p - 1) > 0 /\ (p - 1) % 2 = 0) => Contains(other_lines[p], TAB)

\* write_log: the marker's name is the part of fname before its first "."
\* followed by "-" and the message.
write_log(msg, fname) == Split(fname, ".")[1] \o <<"-">> \o msg

NoLists == [uniref100_lines |-> <<>>, placed_other |-> <<>>, other_lines |-> <<>>]

\* What one call leaves behind: how it ended, the marker it wrote, whether
\* it made the subdirectory, the lists at line 201 and after line 203, the
\* subset files written (db name -> text) and the value returned.
PofResult(status, marker, made_dir, lists, written, ret) ==
    [status |-> status, marker |-> marker, made_dir |-> made_dir,
     uniref100_lines |-> lists.uniref100_lines,
     placed_other |-> lists.placed_other,
     other_lines |-> lists.other_lines,
     written |-> written, ret |-> ret]

NoFiles == <<>>

process_one_file(fname, lines) ==
    IF Len(lines) >= 2 /\ Len(lines[2]) = 1
    THEN PofResult("marker", {write_log(<<"empty_query_seq">>, fname)},
                   FALSE, NoLists, NoFiles, None)
    ELSE IF Len(lines) < 2
    THEN PofResult("IndexError", {}, TRUE, NoLists, NoFiles, None)
    ELSE
    LET origin_query_seq == Strip(lines[2])
        query == <<<<GT, "query", NL>>, origin_query_seq \o <<NL>>>>
        c == Classify(lines, 0, query, query)
        other_lines == DropDuplicateQuery(c.other_lines)
        lists == [uniref100_lines |-> c.uniref100_lines,
                  placed_other |-> c.other_lines,
                  other_lines |-> other_lines]
        pairing_exist == Len(c.uniref100_lines) > 2
        non_pairing_exist == Len(other_lines) > 2
        written ==
            (IF pairing_exist
             THEN "uniref100" :> Join(c.uniref100_lines) ELSE NoFiles)
            @@ (IF non_pairing_exist
                THEN "mmseqs_other" :> Join(other_lines) ELSE NoFiles)
    IN IF c.status = "bad_header"
       THEN PofResult("marker",
                {write_log(<<"bad_header_", ToString(c.at)>>, fname)},
                TRUE, NoLists, NoFiles, None)
       ELSE IF c.status = "IndexError"
       THEN PofResult("IndexError", {}, TRUE, NoLists, NoFiles, None)
       ELSE IF Len(c.other_lines) + Len(c.uniref100_lines) - 2 # Len(lines)
       THEN PofResult("AssertionError", {}, TRUE,
                [lists EXCEPT !.other_lines = c.other_lines], NoFiles, None)
       ELSE IF ~TabAssertion(other_lines)
       THEN PofResult("AssertionError", {}, TRUE, lists, NoFiles, None)
       ELSE IF ~(pairing_exist \/ non_pairing_exist)
       THEN PofResult("AssertionError", {}, TRUE, lists, written, None)
       ELSE PofResult("ok", {}, TRUE, lists, written, Str(origin_query_seq))

---------------------------------------------------------------------------
\* write_to_af3_template

\* json.dumps / json.load of the registry: a str value is a JSON string,
\* None is JSON null.
JsonDump(items) ==
    [p \in 1..Len(items) |->
        [k |-> items[p].k,
         v |-> IF items[p].v = None
               THEN [json |-> "null", text |-> <<>>]
               ELSE [json |-> "string", text |-> items[p].v.val]]]

JsonLoad(doc) ==
    [p \in 1..Len(doc) |->
        [k |-> doc[p].k,
         v |-> IF doc[p].v.json = "null" THEN None ELSE Str(doc[p].v.text)]]

\* msa_seq_chain = {v: k for k, v in msa_chain_seq.items()}: a later item
\* with the same value replaces an earlier one.
RECURSIVE Invert(_)
Invert(items) ==
    IF items = <<>> THEN <<>>
    ELSE (items[Len(items)].v :> items[Len(items)].k)
             @@ Invert(SubSeq(items, 1, Len(items) - 1))

\* Faulty variant of line 244: an unknown sequence falls back to the first
\* per-query identifier instead of raising.
LookupChainOrFirst(msa_seq_chain, chain_seq) ==
    IF Str(chain_seq) \in DOMAIN msa_seq_chain
    THEN [found |-> TRUE, id |-> msa_seq_chain[Str(chain_seq)]]
    ELSE [found |-> TRUE, id |-> "0"]

\* msa_seq_chain[chain_seq]: KeyError when the sequence is no key
LookupChain(msa_seq_chain, chain_seq) ==
    IF Str(chain_seq) \in DOMAIN msa_seq_chain
    THEN [found |-> TRUE, id |-> msa_seq_chain[Str(chain_seq)]]
    ELSE [found |-> FALSE, id |-> ""]

unpairing_db == <<"uniref100", "mmseqs_other">>
pairing_db == <<"uniref100">>

\* the loops of lines 246-251 and 257-262 over the db names: the
\* concatenation of the <db>_hits.a3m files that exist under chain_id_msa
RECURSIVE ConcatHits(_, _, _)
ConcatHits(fs, chain_id_msa, dbs) ==
    IF dbs = <<>> THEN <<>>
    ELSE (IF <<chain_id_msa, Head(dbs)>> \in DOMAIN fs
          THEN fs[<<chain_id_msa, Head(dbs)>>] ELSE <<>>)
         \o ConcatHits(fs, chain_id_msa, Tail(dbs))

\* Faulty variant of lines 252 and 263: the tabs stay.
KeepTabs(text) == text

\* .replace("\t", " ")
TabsToSpaces(text) == Replace(text, <<TAB>>, <<" ">>)

\* The loop of lines 242-265 from entry p (1-based) with the copy out.
RECURSIVE AssembleFrom(_, _, _, _, _)
AssembleFrom(fold_in, out, p, msa_seq_chain, fs) ==
    IF p > Len(fold_in.sequences) THEN [status |-> "ok", doc |-> out]
    ELSE LET chain == fold_in.sequences[p]
         IN IF chain.key # "protein"
            THEN [status |-> "KeyError", doc |-> out]
            ELSE LET r == LookupChain(msa_seq_chain, chain.val.sequence)
                     non_pairing_a3m ==
                         TabsToSpaces(ConcatHits(fs, r.id, unpairing_db))
                     pairing_a3m ==
                         TabsToSpaces(ConcatHits(fs, r.id, pairing_db))
                     protein == ("unpairedMsa" :> non_pairing_a3m
                                 @@ "pairedMsa" :> pairing_a3m
                                 @@ "templates" :> <<>>)
                                @@ out.sequences[p].val
                 IN IF ~r.found
                    THEN [status |-> "KeyError", doc |-> out]
                    ELSE AssembleFrom(fold_in,
                             [out EXCEPT !.sequences[p].val = protein],
                             p + 1, msa_seq_chain, fs)

NoDoc == [name |-> "", sequences |-> <<>>]

\* The result of the call and the <name>_data.json it leaves (NoDoc: none).
write_to_af3_template(fold_in, registry_json, fs) ==
    LET msa_seq_chain == Invert(JsonLoad(registry_json))
        r == AssembleFrom(fold_in, fold_in, 1, msa_seq_chain, fs)
    IN [status |-> r.status,
        written |-> IF r.status = "ok" THEN r.doc ELSE NoDoc]

---------------------------------------------------------------------------
\* The inputs of a run.

\* Line 0 of every alignment file: the query header.
QueryHeader == <<GT, "101", NL>>
\* The query sequences of the chains searched for.
QuerySeqs == {<<"M", "K">>, <<"K">>}
\* Hit headers: the repeated query header that opens the second database,
\* a hit that carries the UniRef100 tag, a hit that does not and whose
\* description repeats its identifier.
TaggedHit == <<GT, "UniRef100", "_", "A", TAB, "d", NL>>
PlainHit == <<GT, "A", TAB, "A", NL>>
HitHeaders == {QueryHeader, TaggedHit, PlainHit}
\* A line that is no header, found where a header is expected.
BadLine == <<"X", NL>>
\* The sequence line of the j-th hit record of a file: all different, and
\* different from every query sequence.
Residues == <<"G", "L", "V", "I", "F", "W", "Y", "H">>
HitSeq(j) == <<Residues[j], NL>>

\* uniref_tax.m8
uniref_tax_m8 ==
    << <<"101", TAB, "A", TAB, "9606", NL>>,
       <<"101", TAB, "UniRef100", "_", "A", TAB, "9606", NL>> >>

\* An alignment file: query header, query sequence line (a lone newline when
\* q is empty), then the hit records.
RECURSIVE HitLines(_, _)
HitLines(hs, j) ==
    IF j > Len(hs) THEN <<>> ELSE <<hs[j], HitSeq(j)>> \o HitLines(hs, j + 1)
AlignmentFile(q, hs) == <<QueryHeader, q \o <<NL>>>> \o HitLines(hs, 1)

\* The header choices of a file with k hit records: a bad line only in the
\* last record (nothing after the first bad line is ever classified).
HeaderChoices(k) ==
    {hs \in [1..k -> HitHeaders \cup {BadLine}] :
        \A j \in 1..(k - 1) : hs[j] # BadLine}

\* The alignment files with at most k hit records; a file with an empty
\* query sequence has none.
AlignmentFiles(k) ==
    {AlignmentFile(<<>>, <<>>)}
    \cup {AlignmentFile(q, hs) : q \in QuerySeqs,
                                 hs \in UNION {HeaderChoices(n) : n \in 0..k}}

RECURSIVE HitsIn(_)
HitsIn(fs) ==
    IF fs = <<>> THEN 0 ELSE (Len(Head(fs)) - 2) \div 2 + HitsIn(Tail(fs))

\* Entries of a fold-input document.
ChainIds == <<"A", "B", "C", "D">>
Protein(id, sequence) ==
    [key |-> "protein", val |-> [id |-> id, sequence |-> sequence]]
Ligand(id) ==
    [key |-> "ligand", val |-> [id |-> id, smiles |-> <<"C">>]]
EntryKinds == QuerySeqs \cup {<<"ligand">>}
Entry(p, kind) ==
    IF kind = <<"ligand">> THEN Ligand(ChainIds[p]) ELSE Protein(ChainIds[p], kind)
NumProtChains(doc) ==
    Cardinality({p \in 1..Len(doc.sequences) : doc.sequences[p].key = "protein"})
\* The documents main lets through Step 1 (lines 306-318) with the value
\* add_toxid has after it: at least one protein chain, and add_toxid = 1
\* when there are several.
FoldInput(kinds) ==
    [name |-> "job", sequences |-> [p \in 1..Len(kinds) |-> Entry(p, kinds[p])]]
FoldInputs(toxid) ==
    {doc \in {FoldInput(kinds) :
                 kinds \in UNION {[1..m -> EntryKinds] : m \in 1..MaxChains}} :
        /\ NumProtChains(doc) >= 1
        /\ NumProtChains(doc) > 1 => toxid = 1}

---------------------------------------------------------------------------
\* The run of __main__ from the search on.

VARIABLES
    pc,             \* where main is
    add_toxid,      \* args.add_toxid after Step 1
    a3m,            \* the *.a3m files of output_msa_dir, in glob order
    save_root,      \* the files update_a3m wrote to the temporary directory
    uniref_indexes, \* the boundary read_a3m returned for each file annotated
    partitioned,    \* the lines process_one_file read, per call
    results,        \* what each call of process_one_file left, per call
    msa_chain_seq,  \* the registry: items (k, v) in insertion order
    markers,        \* names of the marker files written by write_log
    dirs,           \* per-query subdirectories made
    subsets,        \* <<subdirectory, db>> -> text of its <db>_hits.a3m
    registry_json,  \* msa_chain_seq.json
    fold_input,     \* the document the assembler read (NoDoc: not yet)
    data_json,      \* <name>_data.json (NoDoc: not written)
    err             \* the exception that ended the run ("": none)

vars == <<pc, add_toxid, a3m, save_root, uniref_indexes, partitioned, results,
          msa_chain_seq, markers, dirs, subsets, registry_json, fold_input,
          data_json, err>>

Init ==
    /\ pc = "search"
    /\ add_toxid \in {0, 1}
    /\ a3m = <<>>
    /\ save_root = <<>>
    /\ uniref_indexes = <<>>
    /\ partitioned = <<>>
    /\ results = <<>>
    /\ msa_chain_seq = <<>>
    /\ markers = {}
    /\ dirs = {}
    /\ subsets = <<>>
    /\ registry_json = <<>>
    /\ fold_input = NoDoc
    /\ data_json = NoDoc
    /\ err = ""

\* run_colabfold_search leaves one more alignment file in output_msa_dir.
ColabfoldSearch ==
    /\ pc = "search"
    /\ Len(a3m) < MaxFiles
    /\ \E f \in AlignmentFiles(MaxHits - HitsIn(a3m)) : a3m' = Append(a3m, f)
    /\ UNCHANGED <<pc, add_toxid, save_root, uniref_indexes, partitioned,
                   results, msa_chain_seq, markers, dirs, subsets,
                   registry_json, fold_input, data_json, err>>

\* The search returns; Step 3 starts when add_toxid = 1.
SearchDone ==
    /\ pc = "search"
    /\ pc' = IF add_toxid = 1 /\ Len(a3m) > 0 THEN "annotate" ELSE "partition"
    /\ UNCHANGED <<add_toxid, a3m, save_root, uniref_indexes, partitioned,
                   results, msa_chain_seq, markers, dirs, subsets,
                   registry_json, fold_input, data_json, err>>

\* One iteration of the loop of lines 342-347.
UpdateA3m ==
    /\ pc = "annotate"
    /\ \E u \in {update_a3m(a3m[Len(save_root) + 1], read_m8(uniref_tax_m8))} :
          /\ save_root' = Append(save_root, u.text)
          /\ uniref_indexes' = Append(uniref_indexes, u.uniref_index)
          /\ pc' = IF Len(save_root) + 1 = Len(a3m) THEN "partition" ELSE pc
    /\ UNCHANGED <<add_toxid, a3m, partitioned, results, msa_chain_seq,
                   markers, dirs, subsets, registry_json, fold_input,
                   data_json, err>>

\* glob(f"{save_root}/*.a3m") of line 352: paths and contents.  Both
\* directories are absolute paths, so that opjoin(msa_root, fname) is fname.
SaveRootName == IF add_toxid = 1 THEN "/tmp/tmpdir/" ELSE "/msa/"
GlobName(i) == <<SaveRootName, ToString(i), ".", "a3m">>
GlobCount == IF add_toxid = 1 THEN Len(save_root) ELSE Len(a3m)
GlobLines(i) ==
    IF add_toxid = 1 THEN ReadLines(save_root[i + 1]) ELSE a3m[i + 1]

\* Faulty variant of line 359: the registry keys count from one.
RegistryKeyFromOne(i) == ToString(i + 1)

\* save_fname=str(i) and the key msa_chain_seq[str(i)]
SaveFname(i) == ToString(i)
RegistryKey(i) == ToString(i)

\* Faulty variant of the loop: a file that returns no query ends the run.
LoopGoesOnOnlyOk(status) == status = "ok"

\* An exception of process_one_file is not caught by the loop; a marker is
\* no exception.
LoopGoesOn(status) == status \in {"ok", "marker"}

\* One iteration of the loop of lines 352-359.
ProcessOneFile ==
    /\ pc = "partition"
    /\ Len(results) < GlobCount
    /\ \E i \in {Len(results)} :
       \E r \in {process_one_file(GlobName(i), GlobLines(i))} :
          /\ partitioned' = Append(partitioned, GlobLines(i))
          /\ results' = Append(results, r)
          /\ markers' = markers \cup r.marker
          /\ dirs' = IF r.made_dir THEN dirs \cup {SaveFname(i)} ELSE dirs
          /\ subsets' = [path \in {<<SaveFname(i), db>> : db \in DOMAIN r.written}
                            |-> r.written[path[2]]] @@ subsets
          /\ IF LoopGoesOn(r.status)
             THEN /\ msa_chain_seq' =
                         Append(msa_chain_seq, [k |-> RegistryKey(i), v |-> r.ret])
                  /\ UNCHANGED <<pc, err>>
             ELSE /\ pc' = "aborted"
                  /\ err' = r.status
                  /\ UNCHANGED msa_chain_seq
    /\ UNCHANGED <<add_toxid, a3m, save_root, uniref_indexes, registry_json,
                   fold_input, data_json>>

\* Lines 360-363: the registry is written and, when add_toxid = 1, the
\* temporary directory is removed with all it holds: the annotated files and
\* the markers, which write_log put beside the file it was given.
WriteRegistry ==
    /\ pc = "partition"
    /\ Len(results) = GlobCount
    /\ registry_json' = JsonDump(msa_chain_seq)
    /\ save_root' = <<>>
    /\ markers' = IF add_toxid = 1
                  THEN {m \in markers : Head(m) # SaveRootName} ELSE markers
    /\ pc' = "assemble"
    /\ UNCHANGED <<add_toxid, a3m, uniref_indexes, partitioned, results,
                   msa_chain_seq, dirs, subsets, fold_input, data_json, err>>

\* Step 4: write_to_af3_template on the input document.
WriteToAf3Template ==
    /\ pc = "assemble"
    /\ \E doc \in FoldInputs(add_toxid) :
          \E r \in {write_to_af3_template(doc, registry_json, subsets)} :
             /\ fold_input' = doc
             /\ data_json' = r.written
             /\ pc' = IF r.status = "ok" THEN "done" ELSE "aborted"
             /\ err' = IF r.status = "ok" THEN "" ELSE r.status
    /\ UNCHANGED <<add_toxid, a3m, save_root, uniref_indexes, partitioned,
                   results, msa_chain_seq, markers, dirs, subsets,
                   registry_json>>

Next ==
    \/ ColabfoldSearch
    \/ SearchDone
    \/ UpdateA3m
    \/ ProcessOneFile
    \/ WriteRegistry
    \/ WriteToAf3Template

Spec == Init /\ [][Next]_vars

---------------------------------------------------------------------------
\* Vocabulary of the properties: the source file of a call, seen as records.

\* line 1 of the file is empty
EmptyQuery(lines) == Len(lines) >= 2 /\ lines[2] = <<NL>>

\* query header, non-empty query sequence, then alternating header and
\* sequence lines
WellFormed(lines) ==
    /\ Len(lines) >= 2
    /\ Len(lines) % 2 = 0
    /\ \A p \in 1..Len(lines) : (p % 2 = 1) <=> IsHeader(lines[p])
    /\ ~EmptyQuery(lines)

\* a line at a header position after the query record is no header
BadHeader(lines) ==
    /\ Len(lines) >= 2
    /\ ~EmptyQuery(lines)
    /\ \E p \in 3..Len(lines) : p % 2 = 1 /\ ~IsHeader(lines[p])

\* the hit records h = 1..NumHits(lines) after the query record
NumHits(lines) == (Len(lines) - 2) \div 2
HitHeader(lines, h) == lines[2 * h + 1]
HitSequence(lines, h) == lines[2 * h + 2]
Tagged(lines) ==
    {h \in 1..NumHits(lines) : StartsWith(HitHeader(lines, h), <<GT, "UniRef100">>)}
Untagged(lines) == (1..NumHits(lines)) \ Tagged(lines)
\* the k-th smallest element of a set of numbers
Nth(S, k) == CHOOSE h \in S : Cardinality({g \in S : g <= h}) = k
\* records of a list of lines
Records(list) == Len(list) \div 2
Calls == 1..Len(results)
\* the call c of process_one_file ended the run
AbortedAt(c) == pc = "aborted" /\ fold_input = NoDoc /\ c = Len(results)

---------------------------------------------------------------------------
\* C1: for a well-formed file, every hit record placed in the pairable or
\* the non-pairable list carries the sequence line that follows the hit's
\* header in the source file.
C1_HitsKeepTheirSequence ==
    \A c \in Calls :
        LET lines == partitioned[c]
            r == results[c]
        IN (WellFormed(lines) /\ r.status = "ok") =>
            /\ \A k \in 1..Cardinality(Tagged(lines)) :
                  r.uniref100_lines[2 * k + 2]
                      = HitSequence(lines, Nth(Tagged(lines), k))
            /\ \A k \in 1..Cardinality(Untagged(lines)) :
                  r.placed_other[2 * k + 2]
                      = HitSequence(lines, Nth(Untagged(lines), k))

C3_EmptyQueryLeavesNoEntry ==
    \A c \in Calls :
        EmptyQuery(partitioned[c]) =>
            /\ results[c].marker =
                   {<<SaveRootName, ToString(c - 1), "-", "empty_query_seq">>}
            /\ \A p \in 1..Len(msa_chain_seq) :
                   msa_chain_seq[p].k # ToString(c - 1)
            /\ \A p \in 1..Len(registry_json) :
                   registry_json[p].k # ToString(c - 1)

\* the first header line after line 0 equal to line 0 (0-based), 0 if none
FirstRepeat(lines) ==
    LET R == {idx \in 1..(Len(lines) - 1) :
                 IsHeader(lines[idx + 1]) /\ lines[idx + 1] = lines[1]}
    IN IF R = {} THEN 0 ELSE CHOOSE idx \in R : \A o \in R : idx <= o

\* C4: read_a3m returns the line number of the first repeat of the line-0
\* header, and 0 when it is never repeated.
C4_BoundaryIsFirstRepeat ==
    \A k \in 1..Len(uniref_indexes) : uniref_indexes[k] = FirstRepeat(a3m[k])

\* the identifier of a header: between ">" and the first tab (or the end of
\* the line)
Identifier(head) == Tail(Split(Replace(head, <<NL>>, <<>>), TAB)[1])
\* a header with only its identifier replaced
WithIdentifier(head, id) ==
    <<GT>> \o id \o SubSeq(head, Len(Identifier(head)) + 2, Len(head))
\* the header C5 expects for record idx (0-based)
ExpectedHead(head, idx, boundary_index, taxonomy) ==
    LET id == Identifier(head)
    IN IF idx < boundary_index \div 2 /\ id \in DOMAIN taxonomy
       THEN IF StartsWith(id, <<"UniRef100", "_">>)
            THEN WithIdentifier(head, id \o <<"_">> \o taxonomy[id] \o <<"/">>)
            ELSE WithIdentifier(head,
                     <<"UniRef100", "_">> \o id \o <<"_">> \o taxonomy[id] \o <<"/">>)
       ELSE head

\* C5: update_a3m rewrites exactly the headers of the records before
\* boundary_index // 2 whose identifier is in the taxonomy map, replaces only
\* the identifier, and leaves every other line, the number and the order of
\* the records as they were.
C5_OnlyIdentifiersRewritten ==
    \A k \in 1..Len(save_root) :
        LET lines == a3m[k]
            out == ReadLines(save_root[k])
        IN (WellFormed(lines) \/ EmptyQuery(lines)) =>
            /\ Len(out) = Len(lines)
            /\ \A p \in 1..Len(lines) :
                  out[p] = IF p % 2 = 1
                           THEN ExpectedHead(lines[p], (p - 1) \div 2,
                                    uniref_indexes[k], read_m8(uniref_tax_m8))
                           ELSE lines[p]


---------------------------------------------------------------------------
\* Vocabulary of the properties about the assembler.

Assembled == fold_input # NoDoc
Emitted == data_json # NoDoc
Entries == 1..Len(fold_input.sequences)
IsProtein(p) == fold_input.sequences[p].key = "protein"
ChainSeq(p) == fold_input.sequences[p].val.sequence
\* the positions of the registry items whose value is the sequence s
Registered(s) == {n \in 1..Len(msa_chain_seq) : msa_chain_seq[n].v = Str(s)}
\* the per-query identifier a registered sequence resolves to: the key of
\* the last item that holds it
ResolvedId(s) ==
    msa_chain_seq[CHOOSE n \in Registered(s) : \A o \in Registered(s) : o <= n].k
\* the text of a subset file, empty when the file does not exist
SubsetText(q, db) ==
    IF <<q, db>> \in DOMAIN subsets THEN subsets[<<q, db>>] ELSE <<>>
\* a text with each tab turned into one space
Untabbed(text) == [n \in 1..Len(text) |-> IF text[n] = TAB THEN " " ELSE text[n]]
\* a >query record holding the sequence s
QueryRecord(s) == <<GT, "query", NL>> \o s \o <<NL>>

\* C6: when every protein chain of the document is registered, also when
\* the document holds non-protein entries, a document is emitted that
\* differs from the input only in unpairedMsa, pairedMsa and templates of
\* its protein entries.
C6_OnlyMsaFieldsChange ==
    (Assembled /\ \A p \in Entries : IsProtein(p) => Registered(ChainSeq(p)) # {})
    => /\ Emitted
       /\ data_json.name = fold_input.name
       /\ Len(data_json.sequences) = Len(fold_input.sequences)
       /\ \A p \in Entries :
             IF IsProtein(p)
             THEN /\ data_json.sequences[p].key = "protein"
                  /\ data_json.sequences[p].val.id = fold_input.sequences[p].val.id
                  /\ data_json.sequences[p].val.sequence = ChainSeq(p)
                  /\ DOMAIN data_json.sequences[p].val =
                         DOMAIN fold_input.sequences[p].val
                             \cup {"unpairedMsa", "pairedMsa", "templates"}
             ELSE data_json.sequences[p] = fold_input.sequences[p]

\* C7: in the emitted document, unpairedMsa of a protein chain resolved to q
\* is the text of q's uniref100 and mmseqs_other subset files that exist, in
\* that order, with every tab turned into a space, and pairedMsa likewise
\* of the uniref100 file: empty when that file does not exist, and never
\* with a tab.
C7_MsaFieldsAreUntabbedSubsets ==
    Emitted =>
        \A p \in Entries :
            IsProtein(p) =>
                LET q == ResolvedId(ChainSeq(p))
                    chain == data_json.sequences[p].val
                IN /\ chain.unpairedMsa =
                          Untabbed(SubsetText(q, "uniref100")
                                   \o SubsetText(q, "mmseqs_other"))
                   /\ chain.pairedMsa = Untabbed(SubsetText(q, "uniref100"))
                   /\ (<<q, "uniref100">> \notin DOMAIN subsets
                          => chain.pairedMsa = <<>>)
                   /\ ~Contains(chain.unpairedMsa, TAB)
                   /\ ~Contains(chain.pairedMsa, TAB)

\* C7: a document was emitted with a chain whose two subset files exist,
\* the second of them holding a tab.
C7_Witness ==
    /\ Emitted
    /\ \E p \in Entries :
          /\ IsProtein(p)
          /\ {<<ResolvedId(ChainSeq(p)), "uniref100">>,
              <<ResolvedId(ChainSeq(p)), "mmseqs_other">>} \subseteq DOMAIN subsets
          /\ Contains(subsets[<<ResolvedId(ChainSeq(p)), "mmseqs_other">>], TAB)

\* C8: when a protein chain of the document has a sequence that is no value
\* of the registry, the assembler fails with a KeyError and writes no
\* document.
C8_UnregisteredChainWritesNothing ==
    (Assembled /\ \E p \in Entries : IsProtein(p) /\ Registered(ChainSeq(p)) = {})
    => /\ pc = "aborted"
       /\ err = "KeyError"
       /\ ~Emitted

\* C8: the assembler read a document whose first chain is registered and
\* whose second is not.
C8_Witness ==
    /\ Assembled
    /\ Len(fold_input.sequences) >= 2
    /\ IsProtein(1) /\ Registered(ChainSeq(1)) # {}
    /\ IsProtein(2) /\ Registered(ChainSeq(2)) = {}

\* the loop over the alignment files is over, one way or the other
LoopOver == pc \in {"assemble", "done", "aborted"}
\* the lines of the c-th alignment file of the loop
LoopFile(c) == IF c <= Len(partitioned) THEN partitioned[c] ELSE GlobLines(c - 1)
MarkerError(lines) == EmptyQuery(lines) \/ BadHeader(lines)
\* the c-th file has its registry entry and a subset file
Partitioned(c) ==
    /\ c \in Calls
    /\ \E n \in 1..Len(msa_chain_seq) :
          msa_chain_seq[n] =
              [k |-> ToString(c - 1), v |-> Str(Strip(partitioned[c][2]))]
    /\ \E db \in {"uniref100", "mmseqs_other"} :
          <<ToString(c - 1), db>> \in DOMAIN subsets

C10_SubsetsStartWithRegisteredQuery ==
    /\ \A n \in 1..Len(msa_chain_seq) :
          msa_chain_seq[n].v # None =>
              \A db \in {"uniref100", "mmseqs_other"} :
                  <<msa_chain_seq[n].k, db>> \in DOMAIN subsets =>
                      StartsWith(subsets[<<msa_chain_seq[n].k, db>>],
                                 QueryRecord(msa_chain_seq[n].v.val))
    /\ Emitted =>
          \A p \in Entries :
              IsProtein(p) =>
                  LET chain == data_json.sequences[p].val
                  IN /\ (chain.unpairedMsa # <<>> =>
                            StartsWith(chain.unpairedMsa, QueryRecord(ChainSeq(p))))
                     /\ (chain.pairedMsa # <<>> =>
                            StartsWith(chain.pairedMsa, QueryRecord(ChainSeq(p))))

\* C10: a document was emitted for a chain whose sequence two registered
\* files share, with a non-empty unpairedMsa, after two files with
\* different query sequences were registered.
C10_Witness ==
    /\ Emitted
    /\ \E p \in Entries :
          /\ IsProtein(p)
          /\ Cardinality(Registered(ChainSeq(p))) >= 2
          /\ data_json.sequences[p].val.unpairedMsa # <<>>

=============================================================================
